---- MODULE Spec2Model ----
(***************************************************************************)
(* Wind-field interpolation (makeInterpolator), the particle-stream        *)
(* simulator (makeUpdate), the region geometry (Rect, MultiRect) of        *)
(* app/simulation.ts, the station loader of app/datastore.ts and the       *)
(* driver main() of app/index.ts.                                          *)
(*                                                                         *)
(* Numbers.  A JavaScript number is a record [k, v]: k = "fin" with the    *)
(* integer value v, k = "inf" with the sign v, or k = "nan".  Positions    *)
(* are held in units of 1/RngDen of a grid cell, so that                   *)
(* bottom + (top - bottom) * Math.random() is an integer for every value   *)
(* k/RngDen the random source is given.  Speeds are in grid units per      *)
(* hour, so degrees(miles / EARTH_RADIUS) is the identity on the grid.     *)
(* The basis function exp(-300 r^2) of the haversine distance is taken at  *)
(* grid resolution: 1 at distance 0, 0 at any other grid point.            *)
(***************************************************************************)
EXTENDS Integers, Sequences, FiniteSets, TLC

\* ---------------------------------------------------------------- bounds
\* Math.random() returns k/RngDen for k in 0..RngDen-1, so 0 is included
\* and 1 is not.
RngDen == 2
\* util.getIntParam("points", 800): the pool size of the model.
NumPoints == 2
\* util.getFloatParam("window", 168), in hours.
maxWindow == 3
\* util.getFloatParam("tick", 0.5), in hours.
tickDuration == 1
\* The product page lists at most MaxLinks station links.
MaxLinks == 3
\* DataStoreOptions.batchSize (8 when not given), scaled to MaxLinks.
batchSize == 2
\* Corner coordinates of the rects drawn for the region specification.
MaxCoord == 1
\* A drawn MultiRect has at most MaxRects rects.
MaxRects == 2
MaxWindowOption == 11
MaxTickOption == 2

Rng == 0 .. (RngDen - 1)

\* ---------------------------------------------------------------- numbers
F(n) == [k |-> "fin", v |-> n]
Inf(s) == [k |-> "inf", v |-> s]
NaN == [k |-> "nan", v |-> 0]

isFinite(a) == a.k = "fin"
isNaN(a) == a.k = "nan"

Sign(n) == IF n > 0 THEN 1 ELSE IF n < 0 THEN -1 ELSE 0

\* a + b
Add(a, b) ==
  IF a.k = "nan" \/ b.k = "nan" THEN NaN
  ELSE IF a.k = "inf" /\ b.k = "inf" THEN (IF a.v = b.v THEN a ELSE NaN)
  ELSE IF a.k = "inf" THEN a
  ELSE IF b.k = "inf" THEN b
  ELSE F(a.v + b.v)

\* a * b
Mul(a, b) ==
  IF a.k = "nan" \/ b.k = "nan" THEN NaN
  ELSE IF a.k = "inf" \/ b.k = "inf"
       THEN (IF Sign(a.v) * Sign(b.v) = 0 THEN NaN ELSE Inf(Sign(a.v) * Sign(b.v)))
  ELSE F(a.v * b.v)

\* a < b
Lt(a, b) ==
  IF a.k = "nan" \/ b.k = "nan" THEN FALSE
  ELSE IF a.k = "inf" THEN (a.v < 0 /\ ~(b.k = "inf" /\ b.v < 0))
  ELSE IF b.k = "inf" THEN b.v > 0
  ELSE a.v < b.v

Min(a, b) == IF a < b THEN a ELSE b
Max(a, b) == IF a < b THEN b ELSE a
Abs(a) == IF a < 0 THEN -a ELSE a

\* Math.cos(radians(dir)) and Math.sin(radians(dir)) on the four compass
\* directions, at grid resolution.
Cos(dir) == IF dir.k # "fin" THEN NaN
            ELSE IF dir.v = 0 THEN F(1) ELSE IF dir.v = 180 THEN F(-1) ELSE F(0)
Sin(dir) == IF dir.k # "fin" THEN NaN
            ELSE IF dir.v = 90 THEN F(1) ELSE IF dir.v = 270 THEN F(-1) ELSE F(0)

\* ---------------------------------------------------------------- regions
\* class Rect: corners are grid points [lat, lon]; the fields are plain
\* integers in grid units.
Rect(corner1, corner2) ==
  LET b == Min(corner1.lat, corner2.lat)
      t == Max(corner1.lat, corner2.lat)
      l == Min(corner1.lon, corner2.lon)
      r == Max(corner1.lon, corner2.lon)
  IN [bottom |-> b, top |-> t, left |-> l, right |-> r,
      area |-> (t - b) * (r - l)]

\* Rect.contains: the strict interior test.
Rect_contains(rect, pos) ==
  /\ Lt(F(rect.bottom * RngDen), pos.lat)
  /\ Lt(pos.lat, F(rect.top * RngDen))
  /\ Lt(F(rect.left * RngDen), pos.lon)
  /\ Lt(pos.lon, F(rect.right * RngDen))

\* Rect.random with Math.random() = a/RngDen, then b/RngDen.
Rect_random(rect, a, b) ==
  [lat |-> F(rect.bottom * RngDen + (rect.top - rect.bottom) * a),
   lon |-> F(rect.left * RngDen + (rect.right - rect.left) * b)]

RECURSIVE SumAreas(_)
SumAreas(rects) ==
  IF Len(rects) = 1 THEN rects[1].area
  ELSE SumAreas(SubSeq(rects, 1, Len(rects) - 1)) + rects[Len(rects)].area

\* MultiRect constructor: reduce without an initial value throws on an
\* empty list.
MultiRect(rects) ==
  IF Len(rects) = 0 THEN [threw |-> TRUE, rects |-> rects, totalArea |-> 0]
  ELSE [threw |-> FALSE, rects |-> rects, totalArea |-> SumAreas(rects)]

\* MultiRect.contains
MultiRect_contains(mr, pos) ==
  \E i \in 1 .. Len(mr.rects) : Rect_contains(mr.rects[i], pos)

\* The loop of MultiRect.random with the threshold raised after the
\* comparison instead of before it.
RECURSIVE RandomWalkLateThreshold(_, _, _, _, _, _)
RandomWalkLateThreshold(mr, i, threshold, w, a, b) ==
  IF i > Len(mr.rects) THEN [threw |-> TRUE, pos |-> [lat |-> NaN, lon |-> NaN]]
  ELSE IF w * mr.totalArea <= threshold * RngDen
       THEN [threw |-> FALSE, pos |-> Rect_random(mr.rects[i], a, b)]
       ELSE RandomWalkLateThreshold(mr, i + 1, threshold + mr.rects[i].area, w, a, b)

\* The loop of MultiRect.random from rect i on, with weight w/RngDen *
\* totalArea (compared times RngDen) and the running threshold.
RECURSIVE RandomWalk(_, _, _, _, _, _)
RandomWalk(mr, i, threshold, w, a, b) ==
  IF i > Len(mr.rects) THEN [threw |-> TRUE, pos |-> [lat |-> NaN, lon |-> NaN]]
  ELSE IF w * mr.totalArea <= (threshold + mr.rects[i].area) * RngDen
       THEN [threw |-> FALSE, pos |-> Rect_random(mr.rects[i], a, b)]
       ELSE RandomWalk(mr, i + 1, threshold + mr.rects[i].area, w, a, b)

\* MultiRect.random
MultiRect_random(mr, w, a, b) == RandomWalk(mr, 1, 0, w, a, b)

\* randomStream with the lifetime rounded up instead of truncated.
randomStreamRoundsUp(mr, minT, maxT, w, a, b, t) ==
  [pos |-> MultiRect_random(mr, w, a, b).pos,
   ttl |-> minT + ((t * Abs(maxT - minT) + RngDen - 1) \div RngDen)]

\* Math.trunc(x / RngDen) for an integer x.
Trunc(x) == IF x >= 0 THEN x \div RngDen ELSE -((-x) \div RngDen)

\* MultiRect.randomStream
randomStream(mr, minT, maxT, w, a, b, t) ==
  [pos |-> MultiRect_random(mr, w, a, b).pos,
   ttl |-> minT + Trunc(t * Abs(maxT - minT))]

\* globalThis.USA_OUTER: two adjacent rects of different areas stand for
\* the 23 rects of the outline; the second is given top corner first.
USA_OUTER ==
  MultiRect(<<Rect([lat |-> 0, lon |-> 0], [lat |-> 1, lon |-> 2]),
              Rect([lat |-> 3, lon |-> 2], [lat |-> 1, lon |-> 4])>>)

\* ------------------------------------------------------------ interpolator
Sub(a, b) == Add(a, Mul(F(-1), b))

\* basisFn(norm(p, q)) at grid resolution.
basisFn(p, q) ==
  IF ~(isFinite(p.lat) /\ isFinite(p.lon) /\ isFinite(q.lat) /\ isFinite(q.lon))
  THEN NaN
  ELSE IF p = q THEN F(1) ELSE F(0)

\* The kernel matrix bases of makeInterpolator.
Bases(reps) ==
  [i \in 1 .. Len(reps) |->
    [j \in 1 .. Len(reps) |->
      IF i = j THEN F(1) ELSE basisFn(reps[i].pos, reps[j].pos)]]

\* LuDecomposition.isSingular: a kernel matrix of zeros and ones with unit
\* diagonal is singular exactly when two of its rows are equal, and is the
\* identity (its own LU factor, no pivoting) otherwise.
isSingular(K) ==
  \E i, j \in DOMAIN K : i < j /\ K[i] = K[j]

\* LuDecomposition.solve, forward substitution from column k on.
RECURSIVE Forward(_, _, _)
Forward(X, K, k) ==
  IF k > Len(X) THEN X
  ELSE Forward([i \in 1 .. Len(X) |->
                  IF i > k THEN Sub(X[i], Mul(X[k], K[i][k])) ELSE X[i]],
               K, k + 1)

\* LuDecomposition.solve, back substitution from column k down (the
\* diagonal of the factor is 1).
RECURSIVE Backward(_, _, _)
Backward(X, K, k) ==
  IF k < 1 THEN X
  ELSE Backward([i \in 1 .. Len(X) |->
                   IF i < k THEN Sub(X[i], Mul(X[k], K[i][k])) ELSE X[i]],
                K, k - 1)

\* solve(bases, rhs) of ml-matrix: throws "LU matrix is singular".
solve(K, rhs) ==
  IF isSingular(K) THEN [threw |-> TRUE, x |-> <<>>]
  ELSE [threw |-> FALSE, x |-> Backward(Forward(rhs, K, 1), K, Len(rhs))]

\* makeInterpolator up to the two solves.  The closure it returns keeps
\* latWeights and lonWeights; reports is the caller's array, not a copy.
makeInterpolator(reps) ==
  LET K == Bases(reps)
      latSpeeds == [i \in 1 .. Len(reps) |->
                      Mul(reps[i].wind.speed, Cos(reps[i].wind.dir))]
      lonSpeeds == [i \in 1 .. Len(reps) |->
                      Mul(reps[i].wind.speed, Sin(reps[i].wind.dir))]
      lat == solve(K, latSpeeds)
      lon == solve(K, lonSpeeds)
  IN IF lat.threw \/ lon.threw
     THEN [threw |-> TRUE, latWeights |-> <<>>, lonWeights |-> <<>>]
     ELSE [threw |-> FALSE, latWeights |-> lat.x, lonWeights |-> lon.x]

\* base.mmul(weights).get(0, 0): the sum starts at 0.
RECURSIVE Dot(_, _, _)
Dot(base, weights, n) ==
  IF n = 0 THEN F(0)
  ELSE Add(Dot(base, weights, n - 1), Mul(base[n], weights[n]))

\* The closure returned by makeInterpolator, called on (pos, hours) while the
\* captured array holds reps.  mmul reads one row of the weights per entry of
\* base, and throws a TypeError on a row the weights do not have.  wind is
\* given by its two components.
Interpolator(interp, reps, pos, hours) ==
  IF Len(reps) > Len(interp.latWeights)
  THEN [threw |-> TRUE, pos |-> pos, wind |-> [lat |-> NaN, lon |-> NaN]]
  ELSE LET base == [i \in 1 .. Len(reps) |-> basisFn(pos, reps[i].pos)]
           latSpeed == Dot(base, interp.latWeights, Len(reps))
           lonSpeed == Dot(base, interp.lonWeights, Len(reps))
       IN [threw |-> FALSE,
           pos |-> [lat |-> Add(pos.lat, Mul(latSpeed, F(hours))),
                    lon |-> Add(pos.lon, Mul(lonSpeed, F(hours)))],
           wind |-> [lat |-> latSpeed, lon |-> lonSpeed]]

\* ---------------------------------------------------------------- simulator
\* Math.trunc(x / y) for integers x and y, y not 0: towards zero.
TruncDiv(x, y) == Sign(x) * Sign(y) * (Abs(x) \div Abs(y))

\* const maxTicks of makeUpdate, from the window and tick options.
maxTicksOf(window, tickHours) == Min(10, TruncDiv(window, tickHours))
\* const minTicks of makeUpdate: Math.trunc(0.7 * maxTicks).
minTicksOf(maxT) == Min(5, TruncDiv(7 * maxT, 10))

\* The options of the page the driver runs on.
DefaultOptions == [window |-> maxWindow, tick |-> tickDuration]

maxTicks == maxTicksOf(maxWindow, tickDuration)
minTicks == minTicksOf(maxTicks)

\* const randomStream of makeUpdate: every stream one call can return.
RandomStreamsOf(opts) ==
  LET maxT == maxTicksOf(opts.window, opts.tick)
  IN { randomStream(USA_OUTER, minTicksOf(maxT), maxT, w, a, b, t) :
         w \in Rng, a \in Rng, b \in Rng, t \in Rng }

RandomStreams == RandomStreamsOf(DefaultOptions)

\* The advance of a stream without the decrement of its ttl.
AdvanceKeepsTtl(stream, r) == [pos |-> r.pos, ttl |-> stream.ttl]

\* [stream.pos, wind] = interpolator(prevPos, tickDuration); stream.ttl -= 1
Advance(stream, r) == [pos |-> r.pos, ttl |-> stream.ttl - 1]

\* The loop of the tick function from stream i on: every outcome, over the
\* draws of the respawns.  An interpolator that throws ends the call at once.
RECURSIVE TickLoop(_, _, _, _, _, _, _)
TickLoop(i, strs, deltas, respawned, interp, reps, opts) ==
  IF i > Len(strs)
  THEN {[threw |-> FALSE, streams |-> strs, deltas |-> deltas,
         respawned |-> respawned]}
  ELSE LET respawn == strs[i].ttl <= 0 \/ ~MultiRect_contains(USA_OUTER, strs[i].pos)
           fresh == IF respawn THEN RandomStreamsOf(opts) ELSE {strs[i]}
           marked == IF respawn THEN respawned \cup {i} ELSE respawned
       IN UNION {
            LET r == Interpolator(interp, reps, stream.pos, opts.tick)
            IN IF r.threw
               THEN {[threw |-> TRUE, streams |-> [strs EXCEPT ![i] = stream],
                      deltas |-> deltas, respawned |-> marked]}
               ELSE TickLoop(i + 1,
                             [strs EXCEPT ![i] = Advance(stream, r)],
                             Append(deltas, <<stream.pos, r.pos>>),
                             marked, interp, reps, opts)
            : stream \in fresh }

\* The tick function returned by makeUpdate.
Update(strs, interp, reps, opts) == TickLoop(1, strs, <<>>, {}, interp, reps, opts)

\* ---------------------------------------------------------------- data store
\* DataStore.stations: the station codes asked for.
stations == {"A", "B"}
\* The codes a station link of the product page can carry.
LinkCodes == {"A", "B", "Z"}

\* The position a station's page gives: A lies inside the first rect of
\* USA_OUTER, B inside the second, both where a stream can spawn.
StationPos(code) ==
  IF code = "A" THEN Rect_random(USA_OUTER.rects[1], 1, 1)
  ELSE Rect_random(USA_OUTER.rects[2], 1, 1)

\* The wind columns a station page can carry, as Number.parseFloat reads them.
Contents ==
  {[speed |-> F(1), dir |-> F(0)], [speed |-> F(1), dir |-> F(90)],
   [speed |-> Inf(1), dir |-> F(0)], [speed |-> NaN, dir |-> F(0)]}

\* DataStore.parseStationReport: throws on a NaN speed, dir, lat or lon.
parseStationReport(station, contents) ==
  LET pos == StationPos(station)
  IN IF isNaN(contents.speed) \/ isNaN(contents.dir) \/ isNaN(pos.lat) \/ isNaN(pos.lon)
     THEN [status |-> "rejected"]
     ELSE [status |-> "fulfilled",
           value |-> [station |-> station, pos |-> pos,
                      wind |-> [speed |-> contents.speed, dir |-> contents.dir]]]

\* DataStore.fetchStationReport: every way the promise can settle.
fetchStationReport(station) ==
  {[status |-> "rejected"]} \cup { parseStationReport(station, c) : c \in Contents }

\* DataStore.storageKey
storageKey(report) == report.station

\* localStorage.setItem on the list of entries, in insertion order.
setItem(storage, key, report) ==
  LET entry == [key |-> key, expired |-> FALSE, report |-> report]
  IN IF \E i \in 1 .. Len(storage) : storage[i].key = key
     THEN [i \in 1 .. Len(storage) |->
             IF storage[i].key = key THEN entry ELSE storage[i]]
     ELSE Append(storage, entry)

\* DataStore.loadFromCache from entry i on: the reports kept and the entries
\* left in localStorage.
RECURSIVE loadFromCache(_, _, _, _)
loadFromCache(storage, i, reps, kept) ==
  IF i > Len(storage) THEN [reports |-> reps, storage |-> kept]
  ELSE IF storage[i].expired \/ storage[i].report.station \notin stations
       THEN loadFromCache(storage, i + 1, reps, kept)
       ELSE loadFromCache(storage, i + 1, Append(reps, storage[i].report),
                          Append(kept, storage[i]))

\* DataStore.resolveBatch from result i on.
RECURSIVE resolveBatch(_, _, _, _)
resolveBatch(results, i, reps, storage) ==
  IF i > Len(results) THEN [reports |-> reps, storage |-> storage]
  ELSE IF results[i].status = "fulfilled"
       THEN resolveBatch(results, i + 1, Append(reps, results[i].value),
                         setItem(storage, storageKey(results[i].value), results[i].value))
       ELSE resolveBatch(results, i + 1, reps, storage)

\* The link loop of DataStore.load up to its next yield: the stations whose
\* fetch is pending and the links not yet looked at.
RECURSIVE ScanLinks(_, _, _)
ScanLinks(rest, pend, stored) ==
  IF rest = <<>> THEN [pending |-> pend, links |-> rest]
  ELSE IF Head(rest) \in stations /\ Head(rest) \notin stored
       THEN (IF Len(pend) + 1 >= batchSize
             THEN [pending |-> Append(pend, Head(rest)), links |-> Tail(rest)]
             ELSE ScanLinks(Tail(rest), Append(pend, Head(rest)), stored))
       ELSE ScanLinks(Tail(rest), pend, stored)

\* ---------------------------------------------------------------- state
VARIABLES
  pc,                \* where main() is: start, page, batch, done, crashed
  reports,           \* const reports of main(), shared with every interpolator
  interpolator,      \* let interpolator of main()
  streams,           \* const streams of makeUpdate()
  tick,              \* the last call of update(interpolator) by the timer
  localStorage,      \* window.localStorage
  storedReportCodes, \* storedReportCodes of load()
  links,             \* the station links load() has not yet looked at
  pending,           \* pending of load()
  region,            \* a MultiRect under test
  sample,            \* the last point drawn from region
  options,           \* the window and tick options makeUpdate() read
  age                \* per stream: the ticks it has been in the pool since its spawn

vars == <<pc, reports, interpolator, streams, tick, localStorage,
          storedReportCodes, links, pending, region, sample, options, age>>

\* A report as the cache holds it.
CachedReport(code) ==
  [station |-> code, pos |-> StationPos(code),
   wind |-> [speed |-> F(1), dir |-> F(0)]]

\* What localStorage can hold when the page opens.
InitialStorages ==
  {<<>>,
   <<[key |-> "A", expired |-> FALSE, report |-> CachedReport("A")]>>,
   <<[key |-> "A", expired |-> TRUE, report |-> CachedReport("A")],
     [key |-> "Z", expired |-> FALSE, report |-> CachedReport("Z")]>>}

NoTick == [status |-> "none", deltas |-> <<>>, respawned |-> {}]
NoSample == [done |-> FALSE, threw |-> FALSE, pos |-> [lat |-> F(0), lon |-> F(0)]]

\* The module has been loaded: makeUpdate() has filled the pool, main() has
\* not run yet.
Init ==
  /\ pc = "start"
  /\ reports = <<>>
  /\ interpolator = makeInterpolator(<<>>)
  /\ streams \in [1 .. NumPoints -> RandomStreams]
  /\ tick = NoTick
  /\ localStorage \in InitialStorages
  /\ storedReportCodes = {}
  /\ links = <<>>
  /\ pending = <<>>
  /\ region = USA_OUTER
  /\ sample = NoSample
  /\ options = DefaultOptions
  /\ age = [i \in 1 .. NumPoints |-> 0]

\* The body of the for-await loop of main() on one batch.  A throw of
\* makeInterpolator leaves main() rejected after reports.push.
LoopBody(batch, reps, interp) ==
  IF Len(batch) > 0
  THEN LET pushed == reps \o batch
           built == makeInterpolator(pushed)
       IN IF built.threw
          THEN [crashed |-> TRUE, reports |-> pushed, interpolator |-> interp]
          ELSE [crashed |-> FALSE, reports |-> pushed, interpolator |-> built]
  ELSE [crashed |-> FALSE, reports |-> reps, interpolator |-> interp]

\* main() from its start to the first await of load(): the empty
\* interpolator, the timer, then the cached batch.
Main ==
  /\ pc = "start"
  /\ LET cached == loadFromCache(localStorage, 1, <<>>, <<>>)
         body == LoopBody(cached.reports, <<>>, makeInterpolator(<<>>))
     IN /\ localStorage' = cached.storage
        /\ storedReportCodes' = { cached.reports[i].station : i \in 1 .. Len(cached.reports) }
        /\ reports' = body.reports
        /\ interpolator' = body.interpolator
        /\ pc' = IF body.crashed THEN "crashed" ELSE "page"
  /\ UNCHANGED <<streams, tick, links, pending, region, sample, options, age>>

\* load() after a yield: on to the next batch of pending fetches, or the end.
Resume(rest) ==
  LET scan == ScanLinks(rest, <<>>, storedReportCodes)
  IN /\ links' = scan.links
     /\ pending' = scan.pending
     /\ pc' = IF Len(scan.pending) > 0 THEN "batch" ELSE "done"

\* The product page arrives: the fetch fails or there is no .contentArea
\* (page = <<>> covers both and a page without links), or load() walks the
\* links.
PageArrives ==
  /\ pc = "page"
  /\ \E n \in 0 .. MaxLinks : \E page \in [1 .. n -> LinkCodes] : Resume(page)
  /\ UNCHANGED <<reports, interpolator, streams, tick, localStorage,
                 storedReportCodes, region, sample, options, age>>

\* The pending fetches settle: resolveBatch, the loop body of main() on the
\* batch, then load() goes on.
BatchResolves ==
  /\ pc = "batch"
  /\ \E results \in [1 .. Len(pending) -> UNION { fetchStationReport(c) : c \in stations }] :
       /\ \A i \in 1 .. Len(pending) : results[i] \in fetchStationReport(pending[i])
       /\ LET batch == resolveBatch(results, 1, <<>>, localStorage)
              body == LoopBody(batch.reports, reports, interpolator)
          IN /\ localStorage' = batch.storage
             /\ reports' = body.reports
             /\ interpolator' = body.interpolator
             /\ IF body.crashed
                THEN pc' = "crashed" /\ UNCHANGED <<links, pending>>
                ELSE Resume(links)
  /\ UNCHANGED <<streams, tick, storedReportCodes, region, sample, options, age>>

\* The age counter stops one above the largest value a lifetime below
\* maxTicks allows.
AgeCap(opts) == Max(maxTicksOf(opts.window, opts.tick), 0) + 1

\* The timer callback: update(interpolator), handed to anim.render.  A
\* stream respawned by the call is in its first tick; any other has been in
\* the pool one tick longer.
Tick ==
  /\ pc # "start"
  /\ \E out \in Update(streams, interpolator, reports, options) :
       /\ streams' = out.streams
       /\ tick' = [status |-> IF out.threw THEN "threw" ELSE "returned",
                   deltas |-> out.deltas, respawned |-> out.respawned]
       /\ age' = [i \in 1 .. NumPoints |->
                    IF i \in out.respawned THEN 1
                    ELSE Min(age[i] + 1, AgeCap(options))]
  /\ UNCHANGED <<pc, reports, interpolator, localStorage, storedReportCodes,
                 links, pending, region, sample, options>>

Next == Main \/ PageArrives \/ BatchResolves \/ Tick

Spec == Init /\ [][Next]_vars

\* ------------------------------------------------------- region sampling
Coords == 0 .. MaxCoord
Corners == [lat : Coords, lon : Coords]
DrawnRects == { Rect(c1, c2) : c1 \in Corners, c2 \in Corners }

\* The outcome of the MultiRect constructor on every list of 0..MaxRects
\* drawn rects, and USA_OUTER.
DrawnRegions ==
  {USA_OUTER} \cup
  { MultiRect(rects) : rects \in UNION { [1 .. n -> DrawnRects] : n \in 0 .. MaxRects } }

InitRegion ==
  /\ pc = "start"
  /\ reports = <<>>
  /\ interpolator = makeInterpolator(<<>>)
  /\ streams = [i \in 1 .. NumPoints |->
                  randomStream(USA_OUTER, minTicks, maxTicks, 0, 0, 0, 0)]
  /\ tick = NoTick
  /\ localStorage = <<>>
  /\ storedReportCodes = {}
  /\ links = <<>>
  /\ pending = <<>>
  /\ region \in DrawnRegions
  /\ sample = NoSample
  /\ options = DefaultOptions
  /\ age = [i \in 1 .. NumPoints |-> 0]

\* One call of region.random(), on a region whose constructor returned.
Sample ==
  /\ ~region.threw
  /\ \E w \in Rng, a \in Rng, b \in Rng :
       LET r == MultiRect_random(region, w, a, b)
       IN sample' = [done |-> TRUE, threw |-> r.threw, pos |-> r.pos]
  /\ UNCHANGED <<pc, reports, interpolator, streams, tick, localStorage,
                 storedReportCodes, links, pending, region, options, age>>

NextRegion == Sample

SpecRegion == InitRegion /\ [][NextRegion]_vars

\* ------------------------------------------------------- the stream pool
\* The window and tick options a page URL can carry: whole hours, the window
\* negative, zero, short, medium or long, the tick duration positive.
WindowOptions == (-1 .. 1) \cup {MaxWindowOption \div 2, MaxWindowOption}
TickOptions == 1 .. MaxTickOption
PoolOptions == [window : WindowOptions, tick : TickOptions]

\* const maxTicks and minTicks of makeUpdate() under the page's options.
PoolMaxTicks == maxTicksOf(options.window, options.tick)
PoolMinTicks == minTicksOf(PoolMaxTicks)

\* The report lists main() can have finished loading.
PoolReports == {<<>>, <<CachedReport("A"), CachedReport("B")>>}

\* makeUpdate() has filled the pool under some options and main() has loaded
\* every batch: the interpolator is the one built from the whole report list.
InitPool ==
  /\ pc = "done"
  /\ reports \in PoolReports
  /\ interpolator = makeInterpolator(reports)
  /\ options \in PoolOptions
  /\ streams \in [1 .. NumPoints -> RandomStreamsOf(options)]
  /\ tick = NoTick
  /\ localStorage = <<>>
  /\ storedReportCodes = {}
  /\ links = <<>>
  /\ pending = <<>>
  /\ region = USA_OUTER
  /\ sample = NoSample
  /\ age = [i \in 1 .. NumPoints |-> 0]

NextPool == Tick

SpecPool == InitPool /\ [][NextPool]_vars

\* ---------------------------------------------------------------- claims
\* The positions a stream can spawn at.
SpawnPositions == { s.pos : s \in RandomStreams }

\* The live interpolator fails on every position when the shared report
\* array has outgrown its weights.
EvaluationFails ==
  \A p \in SpawnPositions : Interpolator(interpolator, reports, p, tickDuration).threw

\* A step of the timer callback: the only action that changes streams, tick
\* or age.
TickStep == <<streams, tick, age>>' # <<streams, tick, age>>

\* C1: every call of the tick function returns a list of exactly NumPoints
\* segments, and segment i ends where the particle at pool index i now is,
\* whatever interpolator it was handed, a failing one included.
C1_TickReturnsCountSegments ==
  tick.status # "none" =>
    /\ tick.status = "returned"
    /\ Len(tick.deltas) = NumPoints
    /\ \A i \in 1 .. NumPoints : tick.deltas[i][2] = streams[i].pos

\* C2: a tick whose interpolator fails to evaluate does not propagate the
\* failure: it returns, every particle is processed, and each particle whose
\* evaluation failed has been respawned.
C2_FailureAbsorbedAsRespawn ==
  [][(TickStep /\ EvaluationFails) =>
       /\ tick'.status = "returned"
       /\ Len(tick'.deltas) = NumPoints
       /\ tick'.respawned = 1 .. NumPoints]_vars

\* C3: a particle whose ttl a tick brought to exactly 0 is the particle that
\* entered that tick with ttl 1 or was spawned in it (it is not replaced after
\* the decrement), and the next tick replaces every particle that enters it
\* with ttl 0.
C3_ZeroTtlRespawnsNextTick ==
  [][TickStep =>
       \A i \in 1 .. NumPoints :
         /\ streams[i].ttl = 0 => i \in tick'.respawned
         /\ (streams'[i].ttl = 0 /\ i \notin tick'.respawned) => streams[i].ttl = 1]_vars

\* C4: in every tick a particle that enters it outside USA_OUTER or with
\* ttl <= 0 is replaced before advection: its segment starts at a spawn
\* position, and the fresh particle leaves the tick advected once with its
\* spawn ttl decremented once.
C4_OutOfRegionRespawnsBeforeAdvection ==
  [][TickStep =>
       \A i \in 1 .. NumPoints :
         (streams[i].ttl <= 0 \/ ~MultiRect_contains(USA_OUTER, streams[i].pos)) =>
           /\ i \in tick'.respawned
           /\ Len(tick'.deltas) >= i
           /\ \E s \in RandomStreams :
                /\ tick'.deltas[i][1] = s.pos
                /\ streams'[i].ttl = s.ttl - 1
                /\ streams'[i].pos = tick'.deltas[i][2]]_vars

\* C5: whenever the timer calls the tick function, the live interpolator
\* evaluates over as many station positions as the weight vectors solved at
\* its construction are long.
C5_TickSeesConsistentInterpolator ==
  [][TickStep => /\ Len(reports) = Len(interpolator.latWeights)
                 /\ Len(reports) = Len(interpolator.lonWeights)]_vars

\* C6: when a build fails in the linear solve, the driver keeps the
\* interpolator it had, and that interpolator evaluates every position as it
\* did before the build was attempted.
C6_FailedBuildKeepsPreviousInterpolator ==
  [][(pc # "crashed" /\ pc' = "crashed") =>
       /\ interpolator' = interpolator
       /\ \A p \in SpawnPositions :
            Interpolator(interpolator', reports', p, tickDuration)
              = Interpolator(interpolator, reports, p, tickDuration)]_vars

\* C7: while the report list is empty the live interpolator is the one built
\* from no reports, and every evaluation of it fails instead of returning a
\* position and a wind.
C7_EmptyInterpolatorFails ==
  (pc # "start" /\ reports = <<>>) =>
    \A p \in SpawnPositions : Interpolator(interpolator, reports, p, tickDuration).threw

\* The reports with a finite speed and a finite direction.
FiniteReports(reps) ==
  { i \in 1 .. Len(reps) :
      isFinite(reps[i].wind.speed) /\ isFinite(reps[i].wind.dir) }

\* C8: while main() is loading or has finished, the stations of the live
\* interpolator (one weight each) are exactly the reports with a finite speed
\* and a finite direction: a report with a non-finite wind is left out of the
\* kernel matrix and of the two solves.
C8_NonFiniteReportsExcluded ==
  (pc \in {"page", "batch", "done"}) =>
    Len(interpolator.latWeights) = Cardinality(FiniteReports(reports))

FinitePos(p) == isFinite(p.lat) /\ isFinite(p.lon)

\* C9: after any sequence of builds and ticks, every position in the pool and
\* every position in the output of a tick has a finite lat and a finite lon.
C9_PositionsStayFinite ==
  /\ \A i \in 1 .. NumPoints : FinitePos(streams[i].pos)
  /\ \A i \in 1 .. Len(tick.deltas) :
       FinitePos(tick.deltas[i][1]) /\ FinitePos(tick.deltas[i][2])

\* The invariant of a Rect: bottom < top, left < right, area > 0.
RectInvariant(rect) ==
  rect.bottom < rect.top /\ rect.left < rect.right /\ rect.area > 0

\* C10: on a region all of whose rects keep the Rect invariant, every point
\* MultiRect.random returns, for every value in [0, 1) the random source
\* gives, is contained (MultiRect.contains) in the region it was drawn from.
C10_RandomPointContained ==
  (/\ sample.done
   /\ ~sample.threw
   /\ \A i \in 1 .. Len(region.rects) : RectInvariant(region.rects[i]))
    => MultiRect_contains(region, sample.pos)

\* The streams the last call of the tick function spawned; before the first
\* call, the whole pool as makeUpdate() filled it.
Spawned == IF tick.status = "none" THEN 1 .. NumPoints ELSE tick.respawned

\* The ttl stream i was spawned with: a stream spawned by a tick has been
\* advanced once by the same tick.
SpawnTtl(i) == IF tick.status = "none" THEN streams[i].ttl ELSE streams[i].ttl + 1

\* C11, as stated: every stream produced by a spawn, at pool initialization
\* or at a respawn, has minTicks <= ttl < maxTicks, for every minTicks and
\* maxTicks the window and tick options can derive.
C11_SpawnTtlInRange ==
  \A i \in Spawned : PoolMinTicks <= SpawnTtl(i) /\ SpawnTtl(i) < PoolMaxTicks

\* C11, amended: every stream produced by a spawn, at pool initialization or
\* at a respawn, has minTicks <= ttl < maxTicks whenever the options derive a
\* maxTicks of at least 1.
C11_SpawnTtlInRangeWhenMaxTicksPositive ==
  PoolMaxTicks >= 1 =>
    \A i \in Spawned : PoolMinTicks <= SpawnTtl(i) /\ SpawnTtl(i) < PoolMaxTicks

\* A tick has respawned a stream with a ttl strictly inside the range, under
\* options that reach the cap of maxTicks.
C11_Witness ==
  /\ PoolMaxTicks = 10
  /\ tick.status = "returned"
  /\ \E i \in tick.respawned :
       PoolMinTicks < SpawnTtl(i) /\ SpawnTtl(i) < PoolMaxTicks

\* C12: the MultiRect constructor throws on an empty rect list and on no
\* other, and on every MultiRect it returns random() returns a point for
\* every draw and never reaches its throw.
C12_RandomNeverFails ==
  /\ region.threw <=> Len(region.rects) = 0
  /\ sample.done => ~sample.threw

\* random() has walked past the first rect of USA_OUTER and returned a point
\* of the second.
C12_Witness ==
  /\ region = USA_OUTER
  /\ sample.done
  /\ ~sample.threw
  /\ Lt(F(USA_OUTER.rects[1].right * RngDen), sample.pos.lon)

\* C13: every Rect the constructor returns, from any two corners in either
\* order, has bottom < top, left < right and area > 0, with
\* area = (top - bottom) * (right - left).
C13_RectInvariantHolds ==
  \A i \in 1 .. Len(region.rects) :
    /\ RectInvariant(region.rects[i])
    /\ region.rects[i].area =
         (region.rects[i].top - region.rects[i].bottom)
           * (region.rects[i].right - region.rects[i].left)

\* C14: the report list main() accumulates from the batches of one load()
\* run never holds two reports for the same station, whatever links the
\* product page lists and whatever the cache holds.
C14_OneReportPerStation ==
  \A i, j \in 1 .. Len(reports) :
    i < j => reports[i].station # reports[j].station

\* The live interpolator evaluates without throwing: it is built, and its
\* weights cover the shared report array.
WorkingInterpolator ==
  ~interpolator.threw /\ Len(reports) <= Len(interpolator.latWeights)

\* C15: with a working interpolator and maxTicks >= 1, no stream has been in
\* the pool for more than maxTicks consecutive ticks since it was spawned.
C15_StreamReplacedWithinMaxTicks ==
  (WorkingInterpolator /\ PoolMaxTicks >= 1) =>
    \A i \in 1 .. NumPoints : age[i] <= PoolMaxTicks

\* A stream has outlived minTicks ticks, one tick at a time, down to ttl 0,
\* and is due to be replaced by the next tick.
C15_Witness ==
  /\ WorkingInterpolator
  /\ PoolMaxTicks >= 1
  /\ tick.status = "returned"
  /\ \E i \in 1 .. NumPoints :
       /\ i \notin tick.respawned
       /\ streams[i].ttl = 0
       /\ age[i] > PoolMinTicks
       /\ age[i] > 1

====
